---- MODULE Spec2Model ----
(***************************************************************************)
(* Model of scripts/rule_based_validation.py (validate_dataset,            *)
(* apply_json_rules, generate_html_section) and of the summary / preview   *)
(* part of app.py.  One run of validate_dataset is a sequence of steps,    *)
(* one per block of the function; pc names the block that runs next.       *)
(*                                                                         *)
(* A cell is a record [t, v]: t = "num" (v the number), t = "str" (v the   *)
(* identity of the text), t = "na" (missing).  A raw CSV cell may also be  *)
(* t = "ws", a whitespace-only field.  Column values are integers, so the  *)
(* three-sigma comparison is computed exactly.                             *)
(***************************************************************************)
EXTENDS Integers, Sequences, FiniteSets, TLC

\* ------------------------------------------------------------------ bounds
MaxRows == 3
LongPad == 10
MaxFlagged == 1

\* --------------------------------------------------------------- constants
MAX_DISPLAY_ROWS == 5
n_neighbors == 20

\* ------------------------------------------------------------------- cells
Cols == <<"a", "c">>
ColSet == {Cols[k] : k \in DOMAIN Cols}

NA == [t |-> "na", v |-> 0]
WS == [t |-> "ws", v |-> 0]
Num(n) == [t |-> "num", v |-> n]
Str(n) == [t |-> "str", v |-> n]
TextU == Str(100)
TextV == Str(101)

Row(x, y) == [a |-> x, c |-> y]

RawRows ==
  { Row(Num(0), TextU), Row(Num(-1), Num(-1)), Row(Num(1), TextV),
    Row(NA, TextU), Row(Num(0), NA), Row(Num(1), WS) }

RECURSIVE SeqsUpTo(_, _)
SeqsUpTo(S, n) ==
  IF n = 0 THEN {<<>>}
  ELSE LET shorter == SeqsUpTo(S, n - 1)
       IN  shorter \cup {Append(s, x) : s \in {q \in shorter : Len(q) = n - 1}, x \in S}

Repeat(x, n) == [k \in 1..n |-> x]

LongFill == {Row(Num(0), TextU), Row(Num(-1), Num(-1))}

RawDatasets ==
  SeqsUpTo(RawRows, MaxRows)
    \cup {Repeat(f, LongPad) \o <<x>> : f \in LongFill, x \in RawRows}
    \cup {<<x>> \o Repeat(f, LongPad) : f \in LongFill, x \in RawRows}

\* ------------------------------------------------------------ rule files
NoVal == [has |-> FALSE, v |-> 0]
Val(n) == [has |-> TRUE, v |-> n]
NoAllowed == [has |-> FALSE, vals |-> {}]
Allowed(S) == [has |-> TRUE, vals |-> S]
Rule(col, mn, mx, al) == [col |-> col, min |-> mn, max |-> mx, allowed |-> al]

RuleSets ==
  { << Rule("a", Val(0), Val(0), NoAllowed) >>,
    << Rule("a", Val(1), Val(-1), Allowed({Num(0), Num(1)})) >>,
    << Rule("c", NoVal, NoVal, Allowed({TextU})) >>,
    << Rule("z", Val(0), NoVal, NoAllowed), Rule("a", NoVal, NoVal, NoAllowed) >>,
    << Rule("c", Val(0), NoVal, NoAllowed) >>,
    << Rule("a", Val(0), NoVal, NoAllowed), Rule("c", NoVal, Val(-1), Allowed({TextU, TextV})) >> }

\* what is found at rules_path: no path given, no such file, a file that
\* json.load rejects, or a parsed mapping
RulesInputs ==
  {[kind |-> k, rules |-> <<>>] : k \in {"none", "absent", "malformed"}}
    \cup {[kind |-> "loaded", rules |-> r] : r \in RuleSets}

\* ------------------------------------------------------------------ state
VARIABLES pc, df, dtypes, bad_rows, issues_summary, missing_rows, duplicates,
          json_rows, rules_in, report, error, display

vars == <<pc, df, dtypes, bad_rows, issues_summary, missing_rows, duplicates,
          json_rows, rules_in, report, error, display>>

\* --------------------------------------------------------------- frames
\* A frame is [columns, data]; data is a sequence of [idx, vals, issue]: idx
\* the row's index label (its position in df, which selection, assign and
\* concat keep), vals a row over Cols with NA in the columns the frame does
\* not have.
NoIssue == [kind |-> "", col |-> ""]
Label(kind, col) == [kind |-> kind, col |-> col]

EmptyFrame == [columns |-> {}, data |-> <<>>]

IsEmpty(f) == f.columns = {} \/ Len(f.data) = 0

RECURSIVE Pick(_, _, _)
Pick(s, I, i) ==
  IF i > Len(s) THEN <<>>
  ELSE (IF i \in I THEN <<s[i]>> ELSE <<>>) \o Pick(s, I, i + 1)

\* df[mask]: the rows of df at the positions I, in order
Select(I) ==
  [columns |-> ColSet,
   data |-> Pick([i \in DOMAIN df |-> [idx |-> i, vals |-> df[i], issue |-> NoIssue]], I, 1)]

\* frame.assign(issue=label)
Assign(f, label) ==
  [columns |-> f.columns \cup {"issue"},
   data |-> [i \in DOMAIN f.data |->
              [idx |-> f.data[i].idx, vals |-> f.data[i].vals, issue |-> label]]]

\* variant: a row already in f is not added again
ConcatDedup(f, g) ==
  [columns |-> f.columns \cup g.columns,
   data |-> f.data \o SelectSeq(g.data,
                                LAMBDA r : \A k \in DOMAIN f.data : f.data[k].idx # r.idx)]

\* pd.concat([f, g])
Concat(f, g) ==
  [columns |-> f.columns \cup g.columns, data |-> f.data \o g.data]

\* ------------------------------------------------------------- read_csv
IsNumericRaw(raw, col) ==
  /\ Len(raw) > 0
  /\ \A i \in DOMAIN raw : raw[i][col].t \in {"na", "num"}

ParseCell(raw, col, cell) ==
  IF cell.t = "ws" THEN NA
  ELSE IF cell.t = "num" /\ ~IsNumericRaw(raw, col) THEN Str(cell.v)
  ELSE cell

ParseCsv(raw) ==
  [i \in DOMAIN raw |-> [col \in ColSet |-> ParseCell(raw, col, raw[i][col])]]

InferDtypes(raw) ==
  [col \in ColSet |-> IF IsNumericRaw(raw, col) THEN "float64" ELSE "object"]

numeric_cols == SelectSeq(Cols, LAMBDA col : dtypes[col] = "float64")
cat_cols == SelectSeq(Cols, LAMBDA col : dtypes[col] = "object")

Init ==
  /\ pc = "read"
  /\ df = <<>>
  /\ dtypes = [col \in ColSet |-> "object"]
  /\ bad_rows = EmptyFrame
  /\ issues_summary = <<>>
  /\ missing_rows = EmptyFrame
  /\ duplicates = EmptyFrame
  /\ json_rows = EmptyFrame
  /\ rules_in = [kind |-> "unread", rules |-> <<>>]
  /\ report = <<>>
  /\ error = "none"
  /\ display = [summary |-> "", preview |-> {}]

ReadDataset ==
  /\ pc = "read"
  /\ \E raw \in RawDatasets :
       /\ df' = ParseCsv(raw)
       /\ dtypes' = InferDtypes(raw)
  /\ pc' = "missing"
  /\ UNCHANGED <<bad_rows, issues_summary, missing_rows, duplicates, json_rows,
                 rules_in, report, error, display>>

\* one key of issues_summary with its value
Entry(cat, col, count) == [cat |-> cat, col |-> col, count |-> count]

\* --- Missing Values ---
MissingIdx == {i \in DOMAIN df : \E col \in ColSet : df[i][col].t = "na"}

MissingValues ==
  /\ pc = "missing"
  /\ LET m == Select(MissingIdx)
     IN  /\ missing_rows' = m
         /\ IF ~IsEmpty(m)
            THEN /\ issues_summary' =
                      Append(issues_summary,
                             Entry("Missing Values", "", Len(m.data)))
                 /\ bad_rows' = Concat(bad_rows, Assign(m, Label("missing", "")))
            ELSE UNCHANGED <<issues_summary, bad_rows>>
  /\ pc' = "duplicates"
  /\ UNCHANGED <<df, dtypes, duplicates, json_rows, rules_in, report, error, display>>

\* --- Duplicate Rows ---
\* variant: every member of a group of identical rows (keep=False)
DuplicatedIdxKeepNone == {i \in DOMAIN df : \E j \in DOMAIN df : j # i /\ df[j] = df[i]}

DuplicatedIdx == {i \in DOMAIN df : \E j \in 1..(i - 1) : df[j] = df[i]}

DuplicateRows ==
  /\ pc = "duplicates"
  /\ LET d == Select(DuplicatedIdx)
     IN  /\ duplicates' = d
         /\ IF ~IsEmpty(d)
            THEN /\ issues_summary' =
                      Append(issues_summary,
                             Entry("Duplicate Rows", "", Len(d.data)))
                 /\ bad_rows' = Concat(bad_rows, Assign(d, Label("duplicate", "")))
            ELSE UNCHANGED <<issues_summary, bad_rows>>
  /\ pc' = "negative"
  /\ UNCHANGED <<df, dtypes, missing_rows, json_rows, rules_in, report, error, display>>

\* --- per-column detectors (the three "for col in ..." loops) ---
\* variant: the count is recorded for every column, flagged rows or not
RECURSIVE DetectAlwaysCounts(_, _, _, _, _, _)
DetectAlwaysCounts(cols, k, idx, kind, cat, acc) ==
  IF k > Len(cols) THEN acc
  ELSE LET col == cols[k]
           f == Select(idx[col])
       IN  DetectAlwaysCounts(cols, k + 1, idx, kind, cat,
                  [bad |-> IF IsEmpty(f) THEN acc.bad
                           ELSE Concat(acc.bad, Assign(f, Label(kind, col))),
                   summ |-> Append(acc.summ, Entry(cat, col, Len(f.data)))])

RECURSIVE Detect(_, _, _, _, _, _)
Detect(cols, k, idx, kind, cat, acc) ==
  IF k > Len(cols) THEN acc
  ELSE LET col == cols[k]
           f == Select(idx[col])
       IN  Detect(cols, k + 1, idx, kind, cat,
                  IF IsEmpty(f) THEN acc
                  ELSE [bad |-> Concat(acc.bad, Assign(f, Label(kind, col))),
                        summ |-> Append(acc.summ, Entry(cat, col, Len(f.data)))])

\* --- Negative Values ---
\* variant: zero counted as negative
NegativeIdxNonPositive(col) ==
  {i \in DOMAIN df : df[i][col].t = "num" /\ df[i][col].v <= 0}

NegativeIdx(col) == {i \in DOMAIN df : df[i][col].t = "num" /\ df[i][col].v < 0}

NegativeValues ==
  /\ pc = "negative"
  /\ LET r == Detect(numeric_cols, 1, [col \in ColSet |-> NegativeIdx(col)],
                     "negative", "Negative Values",
                     [bad |-> bad_rows, summ |-> issues_summary])
     IN  /\ bad_rows' = r.bad
         /\ issues_summary' = r.summ
  /\ pc' = "outliers"
  /\ UNCHANGED <<df, dtypes, missing_rows, duplicates, json_rows, rules_in, report,
                 error, display>>

\* --- Outliers ---
RECURSIVE SumCol(_, _)
SumCol(col, i) ==
  IF i = 0 THEN 0
  ELSE (IF df[i][col].t = "num" THEN df[i][col].v ELSE 0) + SumCol(col, i - 1)

RECURSIVE SumSqCol(_, _)
SumSqCol(col, i) ==
  IF i = 0 THEN 0
  ELSE (IF df[i][col].t = "num" THEN df[i][col].v * df[i][col].v ELSE 0)
         + SumSqCol(col, i - 1)

CountCol(col) == Cardinality({i \in DOMAIN df : df[i][col].t = "num"})

\* mean = S/n and std = sqrt((n*Q - S*S) / (n*(n-1))) over the non-missing
\* values; both are NaN (every comparison false) when n = 0, std also when
\* n = 1.  With d = n*v - S:
\*   v > mean + 3*std  <=>  d > 0 /\ (n-1)*d*d > 9*n*(n*Q - S*S)
\*   v < mean - 3*std  <=>  d < 0 /\ (n-1)*d*d > 9*n*(n*Q - S*S)
Dev(col, v) == CountCol(col) * v - SumCol(col, Len(df))

Beyond3Std(col, v) ==
  LET n == CountCol(col)
      S == SumCol(col, Len(df))
      Q == SumSqCol(col, Len(df))
      d == Dev(col, v)
  IN  n >= 2 /\ (n - 1) * d * d > 9 * n * (n * Q - S * S)

\* variant: only the upper side of the three-sigma band
OutlierIdxAboveOnly(col) ==
  {i \in DOMAIN df :
     /\ df[i][col].t = "num"
     /\ Dev(col, df[i][col].v) > 0 /\ Beyond3Std(col, df[i][col].v)}

OutlierIdx(col) ==
  {i \in DOMAIN df :
     /\ df[i][col].t = "num"
     /\ \/ Dev(col, df[i][col].v) > 0 /\ Beyond3Std(col, df[i][col].v)
        \/ Dev(col, df[i][col].v) < 0 /\ Beyond3Std(col, df[i][col].v)}

Outliers ==
  /\ pc = "outliers"
  /\ LET r == Detect(numeric_cols, 1, [col \in ColSet |-> OutlierIdx(col)],
                     "outlier", "Outliers",
                     [bad |-> bad_rows, summ |-> issues_summary])
     IN  /\ bad_rows' = r.bad
         /\ issues_summary' = r.summ
  /\ pc' = "categories"
  /\ UNCHANGED <<df, dtypes, missing_rows, duplicates, json_rows, rules_in, report,
                 error, display>>

\* --- Invalid Categories ---
NullIdx(col) == {i \in DOMAIN df : df[i][col].t = "na"}

InvalidCategories ==
  /\ pc = "categories"
  /\ LET r == Detect(cat_cols, 1, [col \in ColSet |-> NullIdx(col)],
                     "invalid_category", "Invalid Categories",
                     [bad |-> bad_rows, summ |-> issues_summary])
     IN  /\ bad_rows' = r.bad
         /\ issues_summary' = r.summ
  /\ pc' = "ml"
  /\ UNCHANGED <<df, dtypes, missing_rows, duplicates, json_rows, rules_in, report,
                 error, display>>

\* --- ML Anomalies ---
Min(x, y) == IF x < y THEN x ELSE y
Max(x, y) == IF x > y THEN x ELSE y

NumericSet == {numeric_cols[k] : k \in DOMAIN numeric_cols}

\* df[numeric_cols].dropna()
CompleteIdx == {i \in DOMAIN df : \A col \in NumericSet : df[i][col].t # "na"}

Project(row) == [col \in ColSet |-> IF col \in NumericSet THEN row[col] ELSE NA]

ml_df ==
  [columns |-> NumericSet,
   data |-> Pick([i \in DOMAIN df |->
                    [idx |-> i, vals |-> Project(df[i]), issue |-> NoIssue]],
                 CompleteIdx, 1)]

\* LocalOutlierFactor.fit lowers the neighbourhood to n_samples - 1 (at least
\* 1) and then asks for that many neighbours of every training sample beside
\* itself, which raises ValueError unless neighbours + 1 <= n_samples.
LofNeighbors(n) == Max(1, Min(n_neighbors, n - 1))
LofRaises(n) == LofNeighbors(n) + 1 > n

\* the positions a scorer may label -1
Flaggable(n) == {I \in SUBSET (1..n) : Cardinality(I) <= MaxFlagged}

RECURSIVE DropDuplicates(_, _)
DropDuplicates(s, i) ==
  IF i > Len(s) THEN <<>>
  ELSE (IF \E j \in 1..(i - 1) : s[j].vals = s[i].vals THEN <<>> ELSE <<s[i]>>)
         \o DropDuplicates(s, i + 1)

MlOutliers(I, J) ==
  [columns |-> ml_df.columns,
   data |-> DropDuplicates(Pick(ml_df.data, I, 1) \o Pick(ml_df.data, J, 1), 1)]

MLAnomalies ==
  /\ pc = "ml"
  /\ IF Len(numeric_cols) > 0 /\ ~IsEmpty(ml_df)
     THEN IF LofRaises(Len(ml_df.data))
          THEN /\ pc' = "failed"
               /\ error' = "ValueError"
               /\ UNCHANGED <<bad_rows, issues_summary>>
          ELSE \E I \in Flaggable(Len(ml_df.data)), J \in Flaggable(Len(ml_df.data)) :
                 LET ml_outliers == MlOutliers(I, J)
                 IN  /\ IF ~IsEmpty(ml_outliers)
                        THEN /\ bad_rows' =
                                  Concat(bad_rows,
                                         Assign(ml_outliers, Label("ML_anomaly", "")))
                             /\ issues_summary' =
                                  Append(issues_summary,
                                         Entry("ML Anomalies", "", Len(ml_outliers.data)))
                        ELSE UNCHANGED <<bad_rows, issues_summary>>
                     /\ pc' = "rules"
                     /\ UNCHANGED error
     ELSE /\ pc' = "rules"
          /\ UNCHANGED <<bad_rows, issues_summary, error>>
  /\ UNCHANGED <<df, dtypes, missing_rows, duplicates, json_rows, rules_in, report,
                 display>>

\* --- JSON Rules ---
\* variant: the minimum itself counted as a violation
BelowMinIdxInclusive(col, m) ==
  {i \in DOMAIN df : df[i][col].t = "num" /\ df[i][col].v <= m}

BelowMinIdx(col, m) == {i \in DOMAIN df : df[i][col].t = "num" /\ df[i][col].v < m}
AboveMaxIdx(col, m) == {i \in DOMAIN df : df[i][col].t = "num" /\ df[i][col].v > m}
NotAllowedIdx(col, vals) == {i \in DOMAIN df : df[i][col] \notin vals}

\* violations = pd.concat([violations, invalid]) when invalid is not empty
Emit(violations, I, label) ==
  IF IsEmpty(Select(I)) THEN violations
  ELSE Concat(violations, Assign(Select(I), label))

RECURSIVE apply_json_rules(_, _, _)
apply_json_rules(rules, k, violations) ==
  IF k > Len(rules) THEN violations
  ELSE LET rule == rules[k]
           col == rule.col
       IN  IF col \notin ColSet THEN apply_json_rules(rules, k + 1, violations)
           ELSE LET v1 == IF rule.min.has
                          THEN Emit(violations, BelowMinIdx(col, rule.min.v),
                                    Label("below_min", col))
                          ELSE violations
                    v2 == IF rule.max.has
                          THEN Emit(v1, AboveMaxIdx(col, rule.max.v),
                                    Label("above_max", col))
                          ELSE v1
                    v3 == IF rule.allowed.has
                          THEN Emit(v2, NotAllowedIdx(col, rule.allowed.vals),
                                    Label("invalid_value", col))
                          ELSE v2
                IN  apply_json_rules(rules, k + 1, v3)

\* an ordering comparison of a text value with a number raises TypeError
CompareRaises(rules) ==
  \E k \in DOMAIN rules :
    /\ rules[k].col \in ColSet
    /\ rules[k].min.has \/ rules[k].max.has
    /\ \E i \in DOMAIN df : df[i][rules[k].col].t = "str"

JSONRules ==
  /\ pc = "rules"
  /\ \E rin \in RulesInputs :
       /\ rules_in' = rin
       /\ IF rin.kind \in {"none", "absent"}
          THEN /\ pc' = "report"
               /\ UNCHANGED <<json_rows, bad_rows, issues_summary, error>>
          ELSE IF rin.kind = "malformed"
          THEN /\ pc' = "failed"
               /\ error' = "JSONDecodeError"
               /\ UNCHANGED <<json_rows, bad_rows, issues_summary>>
          ELSE IF CompareRaises(rin.rules)
          THEN /\ pc' = "failed"
               /\ error' = "TypeError"
               /\ UNCHANGED <<json_rows, bad_rows, issues_summary>>
          ELSE LET j == apply_json_rules(rin.rules, 1, EmptyFrame)
               IN  /\ json_rows' = j
                   /\ IF ~IsEmpty(j)
                      THEN /\ bad_rows' = Concat(bad_rows, j)
                           /\ issues_summary' =
                                Append(issues_summary,
                                       Entry("JSON Rule Violations", "", Len(j.data)))
                      ELSE UNCHANGED <<bad_rows, issues_summary>>
                   /\ pc' = "report"
                   /\ UNCHANGED error
  /\ UNCHANGED <<df, dtypes, missing_rows, duplicates, report, display>>

\* --- Save HTML Report ---
HeadRows(s, n) == SubSeq(s, 1, Min(n, Len(s)))

generate_html_section(title, f, issue_count) ==
  [title |-> title,
   count_info |-> IF issue_count # 0 THEN issue_count ELSE -1,
   placeholder |-> IsEmpty(f),
   nrows |-> IF IsEmpty(f) THEN -1 ELSE Len(f.data),
   table |-> IF IsEmpty(f) THEN <<>> ELSE HeadRows(f.data, MAX_DISPLAY_ROWS),
   more_rows_note |-> ~IsEmpty(f) /\ Len(f.data) > MAX_DISPLAY_ROWS]

\* bad_rows[bad_rows['issue'].str.contains(suffix)]; no column name of the
\* model contains a label suffix, so the match is on the label's kind
WithKind(kind) ==
  [columns |-> bad_rows.columns,
   data |-> SelectSeq(bad_rows.data, LAMBDA r : r.issue.kind = kind)]

SaveReport ==
  /\ pc = "report"
  /\ IF "issue" \notin bad_rows.columns
     THEN /\ pc' = "failed"
          /\ error' = "KeyError"
          /\ UNCHANGED report
     ELSE /\ report' =
               << generate_html_section("Missing Values", missing_rows,
                                        Len(missing_rows.data)),
                  generate_html_section("Duplicate Rows", duplicates,
                                        Len(duplicates.data)),
                  generate_html_section("Negative Values", WithKind("negative"),
                                        Len(WithKind("negative").data)),
                  generate_html_section("Outliers", WithKind("outlier"),
                                        Len(WithKind("outlier").data)),
                  generate_html_section("Invalid Categories",
                                        WithKind("invalid_category"),
                                        Len(WithKind("invalid_category").data)),
                  generate_html_section("ML Anomalies", WithKind("ML_anomaly"),
                                        Len(WithKind("ML_anomaly").data)),
                  generate_html_section("JSON Rule Violations", json_rows,
                                        Len(json_rows.data)) >>
          /\ pc' = "done"
          /\ UNCHANGED error
  /\ UNCHANGED <<df, dtypes, bad_rows, issues_summary, missing_rows, duplicates,
                 json_rows, rules_in, display>>

\* --- app.py: summary cards and preview of the returned values ---
IssueLabels == {bad_rows.data[i].issue : i \in DOMAIN bad_rows.data}

Display ==
  /\ pc = "done"
  /\ display' =
       [summary |-> IF issues_summary # <<>> THEN "cards" ELSE "No issues found",
        preview |-> IF IsEmpty(bad_rows) THEN {}
                    ELSE {[category |-> l,
                           rows |-> HeadRows(SelectSeq(bad_rows.data,
                                                   LAMBDA r : r.issue = l), 5)]
                            : l \in IssueLabels}]
  /\ pc' = "shown"
  /\ UNCHANGED <<df, dtypes, bad_rows, issues_summary, missing_rows, duplicates,
                 json_rows, rules_in, report, error>>

Next ==
  \/ ReadDataset
  \/ MissingValues
  \/ DuplicateRows
  \/ NegativeValues
  \/ Outliers
  \/ InvalidCategories
  \/ MLAnomalies
  \/ JSONRules
  \/ SaveReport
  \/ Display

Spec == Init /\ [][Next]_vars

\* ================================================================ claims
Returned == pc \in {"done", "shown"}
Flagged == bad_rows.data
FlaggedAs(kind, col) ==
  {k \in DOMAIN Flagged : Flagged[k].issue = Label(kind, col)}
FlaggedIdx(kind, col) == {Flagged[k].idx : k \in FlaggedAs(kind, col)}
SummaryCount(cat, col) ==
  IF \E k \in DOMAIN issues_summary :
       issues_summary[k].cat = cat /\ issues_summary[k].col = col
  THEN (CHOOSE e \in {issues_summary[k] : k \in DOMAIN issues_summary} :
          e.cat = cat /\ e.col = col).count
  ELSE 0

\* C1: every row of the returned Flagged Rows, once its issue label is
\* removed, has the columns of the input dataset and equals one of its rows;
\* this is claimed for every detector, ML_anomaly included.
C1_FlaggedRowsVerbatim ==
  Returned =>
    \A k \in DOMAIN Flagged :
      /\ bad_rows.columns \ {"issue"} = ColSet
      /\ \E i \in DOMAIN df : df[i] = Flagged[k].vals

\* --- the "no issues" row of C2, stated from the claim's words
NoMissingCell(i) == \A col \in ColSet : df[i][col].t # "na"
NoNegative(i) == \A col \in NumericSet : ~(df[i][col].t = "num" /\ df[i][col].v < 0)
RECURSIVE SumOf(_, _)
SumOf(col, I) ==
  IF I = {} THEN 0
  ELSE LET i == CHOOSE x \in I : TRUE IN df[i][col].v + SumOf(col, I \ {i})
RECURSIVE SumSqOf(_, _)
SumSqOf(col, I) ==
  IF I = {} THEN 0
  ELSE LET i == CHOOSE x \in I : TRUE
       IN  df[i][col].v * df[i][col].v + SumSqOf(col, I \ {i})
Present(col) == {i \in DOMAIN df : df[i][col].t = "num"}
\* |v - mean| > 3*std, squared and cleared of denominators
ThreeSigma(col, v) ==
  LET I == Present(col)
      n == Cardinality(I)
      S == SumOf(col, I)
      Q == SumSqOf(col, I)
  IN  /\ n >= 2
      /\ (n - 1) * (n * v - S) * (n * v - S) > 9 * n * (n * Q - S * S)
InRange(i) ==
  \A col \in NumericSet : df[i][col].t = "num" => ~ThreeSigma(col, df[i][col].v)
NotRepeat(i) == \A j \in 1..(i - 1) : df[j] # df[i]
BreaksMin(r, i) == r.min.has /\ df[i][r.col].t = "num" /\ df[i][r.col].v < r.min.v
BreaksMax(r, i) == r.max.has /\ df[i][r.col].t = "num" /\ df[i][r.col].v > r.max.v
BreaksAllowed(r, i) == r.allowed.has /\ df[i][r.col] \notin r.allowed.vals
NoRuleViolation(i) ==
  \A k \in DOMAIN rules_in.rules :
    LET r == rules_in.rules[k]
    IN  r.col \in ColSet => ~BreaksMin(r, i) /\ ~BreaksMax(r, i) /\ ~BreaksAllowed(r, i)
CleanRow(i) ==
  NoMissingCell(i) /\ NoNegative(i) /\ InRange(i) /\ NotRepeat(i) /\ NoRuleViolation(i)

\* C2 as stated: a row with no missing cell, no negative value, every value
\* within three standard deviations, not a repeat of an earlier row and
\* breaking no rule is in the returned Flagged Rows under no label at all.
C2_CleanRowNeverFlagged ==
  Returned => \A k \in DOMAIN Flagged : ~CleanRow(Flagged[k].idx)

\* C2 amended: such a row is in the returned Flagged Rows under no label
\* other than ML_anomaly.
C2_CleanRowOnlyMlFlagged ==
  Returned =>
    \A k \in DOMAIN Flagged :
      CleanRow(Flagged[k].idx) => Flagged[k].issue = Label("ML_anomaly", "")

C2_Witness ==
  /\ pc = "done"
  /\ rules_in.kind = "loaded"
  /\ \E i \in DOMAIN df :
       /\ CleanRow(i)
       /\ \E k \in DOMAIN Flagged : Flagged[k].idx = i
  /\ \E k \in DOMAIN Flagged : Flagged[k].issue.kind \in {"negative", "below_min"}

\* C3: for every dataset, the one no detector flags included, the run
\* completes with a report of exactly seven sections in the fixed order, each
\* with the total of its category and at most 5 example rows, a category of
\* zero rows showing the placeholder instead of a table; with no issue the
\* returned Flagged Rows and Issue Counts are empty and the display says
\* "No issues found".
SectionTitles ==
  <<"Missing Values", "Duplicate Rows", "Negative Values", "Outliers",
    "Invalid Categories", "ML Anomalies", "JSON Rule Violations">>
SectionKinds ==
  <<{"missing"}, {"duplicate"}, {"negative"}, {"outlier"}, {"invalid_category"},
    {"ML_anomaly"}, {"below_min", "above_max", "invalid_value"}>>
KindTotal(K) == Cardinality({k \in DOMAIN Flagged : Flagged[k].issue.kind \in K})
C3_ReportAlwaysProduced ==
  /\ pc = "failed" => error \notin {"KeyError"}
  /\ Returned =>
       /\ Len(report) = 7
       /\ \A s \in 1..7 :
            /\ report[s].title = SectionTitles[s]
            /\ Len(report[s].table) <= 5
            /\ report[s].placeholder = (KindTotal(SectionKinds[s]) = 0)
            /\ ~report[s].placeholder =>
                 /\ report[s].count_info = KindTotal(SectionKinds[s])
                 /\ report[s].table # <<>>
  /\ (pc = "shown" /\ Flagged = <<>>) =>
       issues_summary = <<>> /\ display.summary = "No issues found"

\* C4: the duplicate detector flags a row iff it is identical in all columns
\* to an earlier row; first occurrences are never flagged, so the number
\* flagged is the number of rows minus the number of distinct rows.
DuplicatesRan == pc \notin {"read", "missing", "duplicates"}
C4_DuplicateIffRepeat ==
  DuplicatesRan =>
    /\ \A i \in DOMAIN df : (i \in FlaggedIdx("duplicate", "")) <=> ~NotRepeat(i)
    /\ Cardinality(FlaggedAs("duplicate", ""))
         = Len(df) - Cardinality({df[i] : i \in DOMAIN df})
    /\ \A k \in FlaggedAs("duplicate", "") : Flagged[k].vals = df[Flagged[k].idx]

C4_Witness ==
  /\ DuplicatesRan
  /\ Len(df) = 3
  /\ \/ df[1] = df[2] /\ df[2] = df[3] /\ Cardinality(FlaggedAs("duplicate", "")) = 2
     \/ df[1] = df[3] /\ df[1] # df[2] /\ FlaggedIdx("duplicate", "") = {3}

\* C5: for each column in both the dataset and the rule set, a row is emitted
\* as <column>_below_min iff value < min, as <column>_above_max iff value >
\* max, as <column>_invalid_value iff value not in allowed, each at most once
\* and independently; a rule for an absent column or without keys emits
\* nothing.
RulesRan == rules_in.kind = "loaded" /\ pc \in {"report", "done", "shown"}
Emitted(kind, col, i) ==
  Cardinality({k \in DOMAIN json_rows.data :
                 json_rows.data[k].issue = Label(kind, col) /\ json_rows.data[k].idx = i})
RuleFor(col) ==
  {rules_in.rules[k] : k \in {x \in DOMAIN rules_in.rules : rules_in.rules[x].col = col}}
C5_RuleSemantics ==
  RulesRan =>
    /\ \A k \in DOMAIN json_rows.data :
         /\ json_rows.data[k].issue.kind \in {"below_min", "above_max", "invalid_value"}
         /\ json_rows.data[k].issue.col \in ColSet
         /\ RuleFor(json_rows.data[k].issue.col) # {}
         /\ json_rows.data[k].vals = df[json_rows.data[k].idx]
    /\ \A col \in ColSet : \A r \in RuleFor(col) : \A i \in DOMAIN df :
         /\ Emitted("below_min", col, i) = (IF BreaksMin(r, i) THEN 1 ELSE 0)
         /\ Emitted("above_max", col, i) = (IF BreaksMax(r, i) THEN 1 ELSE 0)
         /\ Emitted("invalid_value", col, i) = (IF BreaksAllowed(r, i) THEN 1 ELSE 0)

\* rule a: {min 0, max 0} on a = -1, 0, 1: exactly two rows emitted
C5_Witness ==
  /\ RulesRan
  /\ rules_in.rules = << Rule("a", Val(0), Val(0), NoAllowed) >>
  /\ Len(df) = 3
  /\ df[1].a = Num(-1) /\ df[2].a = Num(0) /\ df[3].a = Num(1)
  /\ Len(json_rows.data) = 2
  /\ json_rows.data[1].issue = Label("below_min", "a") /\ json_rows.data[1].idx = 1
  /\ json_rows.data[2].issue = Label("above_max", "a") /\ json_rows.data[2].idx = 3

\* C6: an Issue Counts key is present only with a count > 0, and the keys are
\* in the order Missing Values, Duplicate Rows, Negative Values per numeric
\* column in column order, Outliers likewise, Invalid Categories likewise, ML
\* Anomalies, JSON Rule Violations; without a loaded rule set there is no
\* JSON Rule Violations key.
CatRank(cat) ==
  CHOOSE s \in 1..7 : SectionTitles[s] = cat
ColRank(col) ==
  IF col = "" THEN 0 ELSE CHOOSE k \in DOMAIN Cols : Cols[k] = col
KeyBefore(e, f) ==
  \/ CatRank(e.cat) < CatRank(f.cat)
  \/ CatRank(e.cat) = CatRank(f.cat) /\ ColRank(e.col) < ColRank(f.col)
C6_IssueCountsOrdered ==
  /\ \A k \in DOMAIN issues_summary : issues_summary[k].count > 0
  /\ \A k \in 1..(Len(issues_summary) - 1) :
       KeyBefore(issues_summary[k], issues_summary[k + 1])
  /\ \A k \in DOMAIN issues_summary :
       /\ issues_summary[k].cat \in {"Negative Values", "Outliers"}
            => issues_summary[k].col \in NumericSet
       /\ issues_summary[k].cat = "Invalid Categories"
            => issues_summary[k].col \in ColSet \ NumericSet
       /\ issues_summary[k].cat = "JSON Rule Violations" => rules_in.kind = "loaded"

C6_Witness ==
  /\ pc = "done"
  /\ \E k \in 1..(Len(issues_summary) - 1) :
       /\ issues_summary[k].cat = "Negative Values" /\ issues_summary[k].col = "a"
       /\ issues_summary[k + 1].cat = "Negative Values"
       /\ issues_summary[k + 1].col = "c"
  /\ SummaryCount("JSON Rule Violations", "") > 0
  /\ SummaryCount("Duplicate Rows", "") > 0

\* C7: when the anomaly detector cannot run on its input it contributes
\* nothing and the run goes on to the rule detector and the report; its
\* failure never aborts the run.
C7_MlFailureIsolated ==
  pc = "failed" => error # "ValueError"

\* C8: a malformed rule file fails the run, with nothing returned and no
\* report written; with no path or no file the run completes normally, with
\* no rule-violation row and no JSON Rule Violations key.
C8_RuleFileHandling ==
  /\ rules_in.kind = "malformed" =>
       pc = "failed" /\ error = "JSONDecodeError" /\ report = <<>>
  /\ rules_in.kind \in {"none", "absent"} =>
       /\ pc # "failed"
       /\ json_rows.data = <<>>
       /\ KindTotal(SectionKinds[7]) = 0
       /\ SummaryCount("JSON Rule Violations", "") = 0

\* C9: a row is flagged <column>_outlier iff the column is numeric and its
\* value is above mean + 3*std or below mean - 3*std over the non-missing
\* values; a column that is constant or has fewer than 2 values flags no row
\* and gets no Outliers key.
OutliersRan == pc \notin {"read", "missing", "duplicates", "negative", "outliers"}
Constant(col) == \A i, j \in Present(col) : df[i][col] = df[j][col]
C9_ThreeSigma ==
  OutliersRan =>
    \A col \in ColSet :
      /\ \A i \in DOMAIN df :
           (i \in FlaggedIdx("outlier", col))
             <=> /\ col \in NumericSet
                 /\ df[i][col].t = "num"
                 /\ ThreeSigma(col, df[i][col].v)
      /\ \A k \in FlaggedAs("outlier", col) : Flagged[k].vals = df[Flagged[k].idx]
      /\ SummaryCount("Outliers", col) = Cardinality(FlaggedAs("outlier", col))
      /\ (Constant(col) \/ Cardinality(Present(col)) < 2) =>
           /\ FlaggedAs("outlier", col) = {}
           /\ SummaryCount("Outliers", col) = 0

C9_Witness ==
  /\ pc = "done"
  /\ SummaryCount("Outliers", "a") = 1
  /\ \E i \in DOMAIN df : i \in FlaggedIdx("outlier", "a")
  /\ "c" \in NumericSet /\ Cardinality(Present("c")) >= 2 /\ Constant("c")
  /\ SummaryCount("Outliers", "c") = 0

\* C10: on return every Issue Counts value is the number of Flagged Rows
\* carrying that category's label(s), JSON Rule Violations the number of all
\* rows the rule evaluations emitted; rows are kept once per label, and the
\* number of Flagged Rows is the sum of the Issue Counts values.
RECURSIVE SumCounts(_)
SumCounts(k) == IF k = 0 THEN 0 ELSE issues_summary[k].count + SumCounts(k - 1)
KindOf(cat) == SectionKinds[CatRank(cat)]
C10_CountsMatchFlagged ==
  Returned =>
    /\ \A k \in DOMAIN issues_summary :
         issues_summary[k].count =
           Cardinality({x \in DOMAIN Flagged :
                          /\ Flagged[x].issue.kind \in KindOf(issues_summary[k].cat)
                          /\ issues_summary[k].cat # "JSON Rule Violations"
                               => Flagged[x].issue.col = issues_summary[k].col})
    /\ \A x \in DOMAIN Flagged :
         \E k \in DOMAIN issues_summary :
           /\ Flagged[x].issue.kind \in KindOf(issues_summary[k].cat)
           /\ issues_summary[k].cat # "JSON Rule Violations"
                => Flagged[x].issue.col = issues_summary[k].col
    /\ Len(Flagged) = SumCounts(Len(issues_summary))
    /\ SummaryCount("JSON Rule Violations", "") = Len(json_rows.data)

C10_Witness ==
  /\ pc = "done"
  /\ SummaryCount("JSON Rule Violations", "") >= 2
  /\ \E x, y \in DOMAIN Flagged :
       /\ Flagged[x].idx = Flagged[y].idx
       /\ Flagged[x].issue.kind = "negative"
       /\ Flagged[y].issue.kind = "below_min"
====
